---- MODULE Spec2Model ----
(***************************************************************************)
(* Model of the GoogleAnalytics runtime base class                         *)
(* (src/src/core/GoogleAnalytics.ts): construction, init(),                *)
(* loadGoogleAnalytics(), configureGA(), isInitialized(), trackEvent() and *)
(* destroy(), together with the hosting page it acts on (window.gtag,      *)
(* window.dataLayer, the injected script tags and their load/error         *)
(* callbacks, the microtask queue).                                        *)
(*                                                                         *)
(* One JavaScript task runs to completion: every action below is the       *)
(* synchronous part of one call, or one callback together with the promise *)
(* continuations it releases.  The page is a browser page (window and      *)
(* document exist), and nothing but this runtime assigns window.gtag after *)
(* the page was set up.                                                    *)
(***************************************************************************)
EXTENDS Integers, Sequences, FiniteSets, TLC

(* ------------------------------ bounds --------------------------------- *)
\* init() and loadGoogleAnalytics() calls issued in one behaviour
MaxCalls == 3
\* destroy() calls issued in one behaviour
MaxDestroys == 2
\* trackEvent() calls issued in one behaviour
MaxTracks == 2
\* trackPage() and trackSearch() calls issued in one behaviour
MaxBuilderCalls == 2

(* ------------------------------ values --------------------------------- *)
\* JavaScript's undefined, for a configuration without a measurementId
Undefined == <<"<undefined>">>
\* JavaScript's null, for gtagLoadPromise
Null == 0

\* strings that are inspected character by character are sequences of characters
ValidId == <<"G", "-", "A", "B", "C", "D", "E", "1", "2", "3", "4", "5">>
LowerCaseId == <<"G", "-", "a", "b", "c", "d", "e", "1", "2", "3", "4", "5">>
MeasurementIds == {Undefined, <<>>, ValidId, LowerCaseId}

UpperAlnum ==
  {"A", "B", "C", "D", "E", "F", "G", "H", "I", "J", "K", "L", "M", "N", "O",
   "P", "Q", "R", "S", "T", "U", "V", "W", "X", "Y", "Z",
   "0", "1", "2", "3", "4", "5", "6", "7", "8", "9"}

\* the configurations a caller may pass to the constructor
Configs ==
  [measurementId : MeasurementIds, disableGA : BOOLEAN,
   debug : BOOLEAN, customConfig : BOOLEAN, currency : {"USD"}]

NoParams == [k \in {} |-> 0]
\* events handed to trackEvent
Events ==
  {[event_name |-> "page_view", event_parameters |-> [page_location |-> "/home"]],
   [event_name |-> "purchase", event_parameters |-> [value |-> 25]]}
\* options.customParameters
CustomParameters == {NoParams, [value |-> 30]}

NoError == [isError |-> FALSE, message |-> <<>>]
ScriptLoadError ==
  [isError |-> TRUE, message |-> <<"Failed to load Google Analytics script">>]
ConfigError == [isError |-> TRUE, message |-> <<"GA4 measurementId is required">>]
GtagThrown == [isError |-> TRUE, message |-> <<"gtag threw">>]

VARIABLES
  config,               \* this.config, frozen by the constructor
  constructed,          \* "pending" | "ok" | "threw": outcome of new GATracker(config)
  constructError,       \* the error the constructor threw
  initializationState,  \* this.initializationState
  gtagLoadPromise,      \* this.gtagLoadPromise: Null or the index of a script tag
  windowGtag,           \* window.gtag: "none" | "external" | "own"
  dataLayer,            \* window.dataLayer, the arguments pushed by the own gtag
  gtagCalls,            \* every invocation of window.gtag, in order
  scripts,              \* script tags appended to document.head
  calls,                \* init()/loadGoogleAnalytics() calls and what their callers see
  destroys,             \* number of destroy() calls
  tracks,               \* trackEvent() calls and how each ended
  microtasks,           \* queued onError callbacks
  onErrorCalls,         \* errors delivered to onError callbacks
  builderCalls          \* GATracker builder calls and what their callers see

vars ==
  <<config, constructed, constructError, initializationState, gtagLoadPromise,
    windowGtag, dataLayer, gtagCalls, scripts, calls, destroys, tracks,
    microtasks, onErrorCalls, builderCalls>>

(* --------------------------- pure functions ---------------------------- *)
\* !value for a string-or-undefined value
Falsy(s) == s = Undefined \/ s = <<>>

isBrowser == TRUE

isGtagAvailable == isBrowser /\ windowGtag # "none"

\* VALIDATION_PATTERNS.MEASUREMENT_ID.test(id): /^G-[A-Z0-9]{10}$/
validateMeasurementId(id) ==
  /\ id # Undefined
  /\ Len(id) = 12
  /\ id[1] = "G"
  /\ id[2] = "-"
  /\ \A i \in 3..12 : id[i] \in UpperAlnum

validateConfig_noDisableCheck(c) ==
  IF Falsy(c.measurementId) THEN "threw" ELSE "ok"

validateConfig_noCheck(c) == "ok"

\* validateConfig(): "threw" when it throws, "ok" when it returns
validateConfig(c) ==
  IF c.disableGA THEN "ok"
  ELSE IF Falsy(c.measurementId) THEN "threw"
  ELSE "ok"

isInitialized_stateOnly ==
  config.disableGA \/ initializationState = "INITIALIZED"

isInitialized ==
  IF config.disableGA THEN TRUE
  ELSE initializationState = "INITIALIZED" \/ isGtagAvailable

configureGA_configBeforeJs ==
  <<[cmd |-> "config", target |-> config.measurementId,
     payload |-> [debug_mode |-> config.debug]],
    [cmd |-> "js", target |-> "date", payload |-> NoParams]>>
  \o (IF config.customConfig
        THEN <<[cmd |-> "consent", target |-> "default",
                payload |-> [customConfig |-> TRUE]]>>
        ELSE <<>>)

\* the gtag calls of configureGA, in order
configureGA ==
  <<[cmd |-> "js", target |-> "date", payload |-> NoParams],
    [cmd |-> "config", target |-> config.measurementId,
     payload |-> [debug_mode |-> config.debug]]>>
  \o (IF config.customConfig
        THEN <<[cmd |-> "consent", target |-> "default",
                payload |-> [customConfig |-> TRUE]]>>
        ELSE <<>>)

settledState_alwaysInitialized(scriptStatus) == "INITIALIZED"

\* init(): the state written after the awaited load settles
settledState(scriptStatus) ==
  IF scriptStatus = "loaded" THEN "INITIALIZED" ELSE "FAILED"

\* init(): the error of the rejection
initFailure(error) ==
  [isError |-> TRUE,
   message |-> <<"GA4 initialization failed: ">>
               \o (IF error.isError THEN error.message ELSE <<"Unknown error">>)]

\* { ...event.event_parameters, ...options.customParameters }
Merge(a, b) ==
  [k \in (DOMAIN a) \cup (DOMAIN b) |-> IF k \in DOMAIN b THEN b[k] ELSE a[k]]

(* ------------------------------ helpers -------------------------------- *)
PendingCalls == {i \in 1..Len(calls) : calls[i].status = "pending"}

NewCall(op, status, awaits, cont, startedLoad, error) ==
  [op |-> op, status |-> status, awaits |-> awaits, cont |-> cont,
   startedLoad |-> startedLoad, error |-> error, destroyed |-> FALSE,
   stateAtCall |-> initializationState,
   inFlightAtCall |-> {i \in PendingCalls : calls[i].op = "init"}]

\* a call whose async function returns promise p: it settles as p does
Follow(op, p) ==
  IF scripts[p].status = "loading"
    THEN NewCall(op, "pending", p, "adopt", FALSE, NoError)
  ELSE IF scripts[p].status = "loaded"
    THEN NewCall(op, "resolved", Null, "none", FALSE, NoError)
  ELSE NewCall(op, "rejected", Null, "none", FALSE, ScriptLoadError)

(* ------------------------------ initial -------------------------------- *)
Init ==
  /\ config \in Configs
  /\ constructed = "pending"
  /\ constructError = NoError
  /\ initializationState = "NOT_INITIALIZED"
  /\ gtagLoadPromise = Null
  /\ windowGtag \in {"none", "external"}
  /\ dataLayer = <<>>
  /\ gtagCalls = <<>>
  /\ scripts = <<>>
  /\ calls = <<>>
  /\ destroys = 0
  /\ tracks = <<>>
  /\ microtasks = <<>>
  /\ onErrorCalls = <<>>
  /\ builderCalls = <<>>

(* ------------------------------ actions -------------------------------- *)
\* new GATracker(config)
Construct ==
  /\ constructed = "pending"
  /\ constructed' = validateConfig(config)
  /\ constructError' = IF validateConfig(config) = "threw" THEN ConfigError ELSE NoError
  /\ initializationState' =
       IF validateConfig(config) = "ok" THEN "NOT_INITIALIZED" ELSE initializationState
  /\ UNCHANGED <<config, gtagLoadPromise, windowGtag, dataLayer, gtagCalls,
                 scripts, calls, destroys, tracks, microtasks, onErrorCalls>>
  /\ UNCHANGED builderCalls

\* the executor appends the script tag and leaves configureGA() out
StartLoad_withoutConfigure ==
  /\ scripts' = Append(scripts, [src |-> config.measurementId, status |-> "loading"])
  /\ gtagLoadPromise' = Len(scripts) + 1
  /\ UNCHANGED <<windowGtag, gtagCalls, dataLayer>>

\* the promise executor of loadGoogleAnalytics: script tag, then configureGA()
StartLoad ==
  /\ scripts' = Append(scripts, [src |-> config.measurementId, status |-> "loading"])
  /\ windowGtag' = "own"
  /\ gtagCalls' = gtagCalls \o configureGA
  /\ dataLayer' = dataLayer \o configureGA
  /\ gtagLoadPromise' = Len(scripts) + 1

\* init(), up to its first await
init ==
  /\ constructed = "ok"
  /\ Len(calls) < MaxCalls
  /\ IF isInitialized
       THEN /\ calls' = Append(calls, NewCall("init", "resolved", Null, "none", FALSE, NoError))
            /\ UNCHANGED <<initializationState, gtagLoadPromise, windowGtag,
                           dataLayer, gtagCalls, scripts>>
     ELSE IF initializationState = "INITIALIZING"
       THEN /\ calls' = Append(calls,
                          IF gtagLoadPromise = Null
                            THEN NewCall("init", "resolved", Null, "none", FALSE, NoError)
                            ELSE Follow("init", gtagLoadPromise))
            /\ UNCHANGED <<initializationState, gtagLoadPromise, windowGtag,
                           dataLayer, gtagCalls, scripts>>
     \* isInitialized() is false here and stays false when loadGoogleAnalytics
     \* evaluates it again, the state being INITIALIZING by then
     ELSE /\ initializationState' = "INITIALIZING"
          /\ StartLoad
          /\ calls' = Append(calls,
                        NewCall("init", "pending", Len(scripts) + 1, "init", TRUE, NoError))
  /\ UNCHANGED <<config, constructed, constructError, destroys, tracks,
                 microtasks, onErrorCalls>>
  /\ UNCHANGED builderCalls

\* loadGoogleAnalytics() called by the application
loadGoogleAnalytics ==
  /\ constructed = "ok"
  /\ Len(calls) < MaxCalls
  /\ IF isInitialized
       THEN /\ calls' = Append(calls,
                          NewCall("loadGoogleAnalytics", "resolved", Null, "none", FALSE, NoError))
            /\ UNCHANGED <<gtagLoadPromise, windowGtag, dataLayer, gtagCalls, scripts>>
       ELSE /\ StartLoad
            /\ calls' = Append(calls,
                          NewCall("loadGoogleAnalytics", "pending", Len(scripts) + 1,
                                  "adopt", TRUE, NoError))
  /\ UNCHANGED <<config, constructed, constructError, initializationState,
                 destroys, tracks, microtasks, onErrorCalls>>
  /\ UNCHANGED builderCalls

\* what a pending call becomes when the script it awaits settles
Settle(c, scriptStatus) ==
  IF scriptStatus = "loaded"
    THEN [c EXCEPT !.status = "resolved", !.awaits = Null]
  ELSE [c EXCEPT !.status = "rejected", !.awaits = Null,
                 !.error = IF c.cont = "init" THEN initFailure(ScriptLoadError)
                           ELSE ScriptLoadError]

ScriptSettles(s, scriptStatus) ==
  /\ s \in 1..Len(scripts)
  /\ scripts[s].status = "loading"
  /\ microtasks = <<>>
  /\ scripts' = [scripts EXCEPT ![s].status = scriptStatus]
  /\ calls' = [i \in 1..Len(calls) |->
                 IF calls[i].status = "pending" /\ calls[i].awaits = s
                   THEN Settle(calls[i], scriptStatus) ELSE calls[i]]
  /\ initializationState' =
       IF \E i \in PendingCalls : calls[i].awaits = s /\ calls[i].cont = "init"
         THEN settledState(scriptStatus) ELSE initializationState
  /\ UNCHANGED <<config, constructed, constructError, gtagLoadPromise, windowGtag,
                 dataLayer, gtagCalls, destroys, tracks, microtasks, onErrorCalls>>
  /\ UNCHANGED builderCalls

\* scriptTag.onload, and the continuation of the init() awaiting it
ScriptOnload == \E s \in 1..Len(scripts) : ScriptSettles(s, "loaded")

\* scriptTag.onerror, and the catch block of the init() awaiting it
ScriptOnerror == \E s \in 1..Len(scripts) : ScriptSettles(s, "errored")

\* destroy() clears the promise and keeps the state
destroy_keepsState ==
  /\ constructed = "ok"
  /\ destroys < MaxDestroys
  /\ gtagLoadPromise' = Null
  /\ destroys' = destroys + 1
  /\ calls' = [i \in 1..Len(calls) |->
                 IF calls[i].status = "pending"
                   THEN [calls[i] EXCEPT !.destroyed = TRUE] ELSE calls[i]]
  /\ UNCHANGED <<config, constructed, constructError, windowGtag, dataLayer,
                 gtagCalls, scripts, tracks, microtasks, onErrorCalls,
                 initializationState>>
  /\ UNCHANGED builderCalls

\* destroy() also removes window.gtag and empties window.dataLayer
destroy_removesGtag ==
  /\ constructed = "ok"
  /\ destroys < MaxDestroys
  /\ gtagLoadPromise' = Null
  /\ initializationState' = "NOT_INITIALIZED"
  /\ destroys' = destroys + 1
  /\ windowGtag' = "none"
  /\ dataLayer' = <<>>
  /\ calls' = [i \in 1..Len(calls) |->
                 IF calls[i].status = "pending"
                   THEN [calls[i] EXCEPT !.destroyed = TRUE] ELSE calls[i]]
  /\ UNCHANGED <<config, constructed, constructError, gtagCalls, scripts,
                 tracks, microtasks, onErrorCalls>>
  /\ UNCHANGED builderCalls

\* destroy()
destroy ==
  /\ constructed = "ok"
  /\ destroys < MaxDestroys
  /\ gtagLoadPromise' = Null
  /\ initializationState' = "NOT_INITIALIZED"
  /\ destroys' = destroys + 1
  /\ calls' = [i \in 1..Len(calls) |->
                 IF calls[i].status = "pending"
                   THEN [calls[i] EXCEPT !.destroyed = TRUE] ELSE calls[i]]
  /\ UNCHANGED <<config, constructed, constructError, windowGtag, dataLayer,
                 gtagCalls, scripts, tracks, microtasks, onErrorCalls>>
  /\ UNCHANGED builderCalls

\* the event is kept in window.dataLayer while window.gtag is missing
trackEventDispatch_queueWhenUnavailable(event, custom, onError, throws) ==
  IF ~isGtagAvailable
    THEN /\ tracks' = Append(tracks, [event |-> event, result |-> "unavailable"])
         /\ dataLayer' = Append(dataLayer,
              [cmd |-> "event", target |-> event.event_name,
               payload |-> Merge(event.event_parameters, custom)])
         /\ UNCHANGED <<gtagCalls, microtasks, onErrorCalls>>
  ELSE IF throws
    THEN /\ tracks' = Append(tracks,
                         [event |-> event, result |-> "caught", onError |-> onError])
         /\ microtasks' = IF onError THEN Append(microtasks, GtagThrown) ELSE microtasks
         /\ UNCHANGED <<gtagCalls, dataLayer, onErrorCalls>>
  ELSE /\ tracks' = Append(tracks, [event |-> event, result |-> "dispatched"])
       /\ gtagCalls' = Append(gtagCalls,
            [cmd |-> "event", target |-> event.event_name,
             payload |-> Merge(event.event_parameters, custom)])
       /\ dataLayer' =
            IF windowGtag = "own"
              THEN Append(dataLayer,
                     [cmd |-> "event", target |-> event.event_name,
                      payload |-> Merge(event.event_parameters, custom)])
              ELSE dataLayer
       /\ UNCHANGED <<microtasks, onErrorCalls>>

\* options.onError is called inside the catch block
trackEventDispatch_inlineOnError(event, custom, onError, throws) ==
  IF ~isGtagAvailable
    THEN /\ tracks' = Append(tracks, [event |-> event, result |-> "unavailable"])
         /\ UNCHANGED <<gtagCalls, dataLayer, microtasks, onErrorCalls>>
  ELSE IF throws
    THEN /\ tracks' = Append(tracks,
                         [event |-> event, result |-> "caught", onError |-> onError])
         /\ onErrorCalls' =
              IF onError THEN Append(onErrorCalls, GtagThrown) ELSE onErrorCalls
         /\ UNCHANGED <<gtagCalls, dataLayer, microtasks>>
  ELSE /\ tracks' = Append(tracks, [event |-> event, result |-> "dispatched"])
       /\ gtagCalls' = Append(gtagCalls,
            [cmd |-> "event", target |-> event.event_name,
             payload |-> Merge(event.event_parameters, custom)])
       /\ dataLayer' =
            IF windowGtag = "own"
              THEN Append(dataLayer,
                     [cmd |-> "event", target |-> event.event_name,
                      payload |-> Merge(event.event_parameters, custom)])
              ELSE dataLayer
       /\ UNCHANGED <<microtasks, onErrorCalls>>

\* trackEvent(), after the disableGA check
trackEventDispatch(event, custom, onError, throws) ==
  IF ~isGtagAvailable
    THEN /\ tracks' = Append(tracks, [event |-> event, result |-> "unavailable"])
         /\ UNCHANGED <<gtagCalls, dataLayer, microtasks, onErrorCalls>>
  ELSE IF throws
    THEN /\ tracks' = Append(tracks,
                         [event |-> event, result |-> "caught", onError |-> onError])
         /\ microtasks' = IF onError THEN Append(microtasks, GtagThrown) ELSE microtasks
         /\ UNCHANGED <<gtagCalls, dataLayer, onErrorCalls>>
  ELSE /\ tracks' = Append(tracks, [event |-> event, result |-> "dispatched"])
       /\ gtagCalls' = Append(gtagCalls,
            [cmd |-> "event", target |-> event.event_name,
             payload |-> Merge(event.event_parameters, custom)])
       /\ dataLayer' =
            IF windowGtag = "own"
              THEN Append(dataLayer,
                     [cmd |-> "event", target |-> event.event_name,
                      payload |-> Merge(event.event_parameters, custom)])
              ELSE dataLayer
       /\ UNCHANGED <<microtasks, onErrorCalls>>

trackEventBody_noDisableCheck(event, custom, onError, throws) ==
  trackEventDispatch(event, custom, onError, throws)

\* trackEvent(event, {customParameters, onError}); throws: window.gtag throws
trackEventBody(event, custom, onError, throws) ==
  IF config.disableGA
    THEN /\ tracks' = Append(tracks, [event |-> event, result |-> "disabled"])
         /\ UNCHANGED <<gtagCalls, dataLayer, microtasks, onErrorCalls>>
  ELSE trackEventDispatch(event, custom, onError, throws)

trackEvent ==
  /\ constructed = "ok"
  /\ Len(tracks) < MaxTracks
  /\ \E event \in Events, custom \in CustomParameters, onError \in BOOLEAN,
        throws \in BOOLEAN :
       \* only a gtag installed outside this runtime can throw
       /\ throws => windowGtag = "external"
       /\ trackEventBody(event, custom, onError, throws)
  /\ UNCHANGED <<config, constructed, constructError, initializationState,
                 gtagLoadPromise, windowGtag, scripts, calls, destroys>>
  /\ UNCHANGED builderCalls

\* queueMicrotask(() => options.onError(err)) runs
RunMicrotask ==
  /\ microtasks # <<>>
  /\ onErrorCalls' = Append(onErrorCalls, Head(microtasks))
  /\ microtasks' = Tail(microtasks)
  /\ UNCHANGED <<config, constructed, constructError, initializationState,
                 gtagLoadPromise, windowGtag, dataLayer, gtagCalls, scripts,
                 calls, destroys, tracks>>
  /\ UNCHANGED builderCalls

Next ==
  \/ Construct
  \/ init
  \/ loadGoogleAnalytics
  \/ ScriptOnload
  \/ ScriptOnerror
  \/ destroy
  \/ trackEvent
  \/ RunMicrotask

Spec == Init /\ [][Next]_vars

TypeOK ==
  /\ config \in Configs
  /\ constructed \in {"pending", "ok", "threw"}
  /\ initializationState \in {"NOT_INITIALIZED", "INITIALIZING", "INITIALIZED", "FAILED"}
  /\ gtagLoadPromise \in 0..Len(scripts)
  /\ windowGtag \in {"none", "external", "own"}
  /\ destroys \in 0..MaxDestroys
(* ------------------------------ claims --------------------------------- *)
\* a step that issues an init() or loadGoogleAnalytics() call
CallIssued == Len(calls') = Len(calls) + 1

\* a step that issues an init() call
InitIssued == CallIssued /\ calls'[Len(calls')].op = "init"

\* message m ends with the message of the underlying error
CarriesCause(m, cause) ==
  /\ Len(m) >= Len(cause)
  /\ SubSeq(m, Len(m) - Len(cause) + 1, Len(m)) = cause

\* every call so far is an init() issued before the first init() settled
AllInitsBeforeFirstSettles ==
  /\ calls # <<>>
  /\ \A i \in 1..Len(calls) :
       /\ calls[i].op = "init"
       /\ i > 1 => 1 \in calls[i].inFlightAtCall

\* C1: with disableGA false and no reporting function present beforehand,
\* whatever number of init() calls is issued before the first one settles,
\* exactly one script tag has been injected.
C1_SingleLoadAttempt ==
  (~config.disableGA /\ windowGtag # "external" /\ AllInitsBeforeFirstSettles)
    => Len(scripts) = 1

C1_Witness ==
  /\ ~config.disableGA
  /\ Len(calls) = 3
  /\ AllInitsBeforeFirstSettles
  /\ calls[1].status = "pending"
  /\ Len(scripts) = 1

\* C2: two init() calls, the second issued while the first is in flight and
\* the state is INITIALIZING, settle the same way (both resolve or both reject).
C2_SameOutcome ==
  \A i, j \in 1..Len(calls) :
    ( /\ calls[i].op = "init"
      /\ calls[j].op = "init"
      /\ i \in calls[j].inFlightAtCall
      /\ calls[j].stateAtCall = "INITIALIZING"
      /\ calls[i].status # "pending"
      /\ calls[j].status # "pending" )
    => calls[i].status = calls[j].status

C3_SettleStep ==
  \A i \in 1..Len(calls) :
    ( /\ calls[i].op = "init"
      /\ calls[i].startedLoad
      /\ ~calls[i].destroyed
      /\ calls[i].status = "pending"
      /\ calls'[i].status # "pending" )
    => /\ scripts'[calls[i].awaits].status = "loaded"
            => /\ calls'[i].status = "resolved"
               /\ initializationState' = "INITIALIZED"
               /\ windowGtag' # "none"
       /\ scripts'[calls[i].awaits].status = "errored"
            => /\ calls'[i].status = "rejected"
               /\ initializationState' = "FAILED"
               /\ calls'[i].error.isError
               /\ CarriesCause(calls'[i].error.message, ScriptLoadError.message)
       /\ calls'[i].status = "resolved" => initializationState' # "INITIALIZING"

\* C3: when an init() that started a load settles with no destroy() in
\* between: after the load callback the state is INITIALIZED and window.gtag
\* is callable; after the error callback the state is FAILED and the call
\* rejects with an error carrying the cause; it never resolves with the
\* state INITIALIZING.
C3_SettledOutcome == [][C3_SettleStep]_vars

C3_Witness ==
  \E i, j \in 1..Len(calls) :
    /\ calls[i].op = "init" /\ calls[i].startedLoad /\ ~calls[i].destroyed
    /\ calls[i].status = "rejected"
    /\ initializationState = "FAILED"
    /\ calls[j].op = "init" /\ i \in calls[j].inFlightAtCall

\* C4: a new init() call issued in state FAILED moves the state to
\* INITIALIZING and starts a new load attempt.
C4_RetryFromFailed ==
  [][(initializationState = "FAILED" /\ InitIssued)
       => /\ initializationState' = "INITIALIZING"
          /\ Len(scripts') = Len(scripts) + 1]_vars

\* the instance was initialized by a load its own init() started
OwnInitDone ==
  \E i \in 1..Len(calls) :
    calls[i].op = "init" /\ calls[i].startedLoad /\ calls[i].status = "resolved"

\* C5: after the instance was initialized by its own init() and destroyed, a
\* new init() takes the state from NOT_INITIALIZED to INITIALIZING (and on to
\* INITIALIZED when the load succeeds).
C5_ReinitAfterDestroy ==
  [][(OwnInitDone /\ destroys > 0 /\ initializationState = "NOT_INITIALIZED"
      /\ InitIssued)
       => initializationState' = "INITIALIZING"]_vars

\* C6: destroy() sets the state to NOT_INITIALIZED and clears the pending
\* handle, and when a load that was in flight at a destroy() later succeeds or
\* fails the state stays NOT_INITIALIZED.
C6_DestroyedLoadNotRetained ==
  [][/\ destroys' = destroys + 1
          => initializationState' = "NOT_INITIALIZED" /\ gtagLoadPromise' = Null
     /\ \A i \in 1..Len(calls) :
          ( /\ calls[i].status = "pending"
            /\ calls[i].destroyed
            /\ calls'[i].status # "pending"
            /\ initializationState = "NOT_INITIALIZED" )
          => initializationState' = "NOT_INITIALIZED"]_vars

\* some init() call has resolved
InitSucceeded ==
  \E i \in 1..Len(calls) : calls[i].op = "init" /\ calls[i].status = "resolved"

\* C7: once an init() has succeeded, every later init() or
\* loadGoogleAnalytics() call resolves, injects no script, makes no
\* configuration call and leaves the state as it is.
C7_InitIdempotent ==
  [][(InitSucceeded /\ CallIssued)
       => /\ calls'[Len(calls')].status = "resolved"
          /\ scripts' = scripts
          /\ gtagCalls' = gtagCalls
          /\ dataLayer' = dataLayer
          /\ initializationState' = initializationState]_vars

C7_Witness ==
  /\ Len(calls) = 3
  /\ calls[1].op = "init" /\ calls[1].startedLoad /\ calls[1].status = "resolved"
  /\ calls[2].op = "init" /\ calls[2].stateAtCall = "INITIALIZED"
  /\ calls[2].status = "resolved"
  /\ calls[3].op = "loadGoogleAnalytics" /\ calls[3].status = "resolved"
  /\ initializationState = "INITIALIZED"
  /\ Len(scripts) = 1

\* C8: construction throws a configuration error exactly when measurementId
\* is empty or missing and disableGA is false; every other construction
\* succeeds and leaves the state NOT_INITIALIZED.
C8_ConstructionError ==
  [][(constructed = "pending" /\ constructed' # "pending")
       => /\ constructed' = "threw"
               <=> (Falsy(config.measurementId) /\ ~config.disableGA)
          /\ constructed' = "threw" => constructError' = ConfigError
          /\ constructed' = "ok"
               => initializationState' = "NOT_INITIALIZED" /\ constructError' = NoError]_vars

C8_Witness ==
  /\ constructed = "threw"
  /\ config.measurementId = <<>>
  /\ ~config.disableGA
  /\ constructError = ConfigError

\* C9 as stated: the state moves from NOT_INITIALIZED to INITIALIZING, and a
\* load is started, only if disableGA is false and measurementId matches
\* ^G-[A-Z0-9]{10}$.
C9_PatternGuard ==
  [][/\ (initializationState = "NOT_INITIALIZED" /\ initializationState' = "INITIALIZING")
          => ~config.disableGA /\ validateMeasurementId(config.measurementId)
     /\ Len(scripts') > Len(scripts)
          => ~config.disableGA /\ validateMeasurementId(config.measurementId)]_vars

\* C9 amended: the state moves from NOT_INITIALIZED to INITIALIZING only in an
\* init() call that starts a load, with disableGA false and a non-empty
\* measurementId; the pattern is not consulted: with disableGA false and no
\* reporting function present, init() in state NOT_INITIALIZED starts a load
\* for every measurementId the constructor accepted.
C9_NonEmptyGuard ==
  [][/\ (initializationState = "NOT_INITIALIZED" /\ initializationState' = "INITIALIZING")
          => /\ InitIssued
             /\ ~config.disableGA
             /\ ~Falsy(config.measurementId)
             /\ Len(scripts') = Len(scripts) + 1
     /\ ( /\ InitIssued
          /\ ~config.disableGA
          /\ windowGtag = "none"
          /\ initializationState = "NOT_INITIALIZED" )
          => /\ initializationState' = "INITIALIZING"
             /\ Len(scripts') = Len(scripts) + 1
             /\ scripts'[Len(scripts')].src = config.measurementId]_vars

C9_Witness ==
  /\ initializationState = "INITIALIZING"
  /\ ~validateMeasurementId(config.measurementId)
  /\ Len(scripts) = 1
  /\ scripts[1].src = LowerCaseId

\* C10: with disableGA true the runtime never invokes the reporting function
\* and never injects the script, also when a reporting function is present.
C10_DisabledIsSilent ==
  config.disableGA
    => /\ gtagCalls = <<>>
       /\ dataLayer = <<>>
       /\ scripts = <<>>
       /\ windowGtag # "own"

C10_Witness ==
  /\ config.disableGA
  /\ windowGtag = "external"
  /\ destroys > 0
  /\ \E i \in 1..Len(calls) : calls[i].op = "init"
  /\ Len(tracks) = MaxTracks
(* ----------------------- claims on trackEvent -------------------------- *)
\* the "event" entries of a sequence of gtag calls
EventCalls(log) == SelectSeq(log, LAMBDA c : c.cmd = "event")

\* trackEvent() calls that ended as r
TracksEnded(r) == {i \in 1..Len(tracks) : tracks[i].result = r}

\* a step that issues a trackEvent() call
TrackIssued == Len(tracks') = Len(tracks) + 1

CaughtWithOnError ==
  {i \in TracksEnded("caught") : tracks[i].onError}

\* C13: when window.gtag throws, trackEvent still ends without an error, and
\* a supplied onError is queued once with that error and runs only after the
\* call returned: no trackEvent step delivers to onError, and the callbacks
\* delivered plus those still queued are one per such call.
C13_OnErrorDeferred ==
  [][/\ TrackIssued
          => /\ onErrorCalls' = onErrorCalls
             /\ tracks'[Len(tracks')].result
                  \in {"disabled", "unavailable", "dispatched", "caught"}
     /\ Len(onErrorCalls') + Len(microtasks') = Cardinality(CaughtWithOnError')
     /\ \A i \in 1..Len(onErrorCalls') : onErrorCalls'[i] = GtagThrown
     /\ \A i \in 1..Len(microtasks') : microtasks'[i] = GtagThrown]_vars

C13_Witness ==
  /\ Len(tracks) = 2
  /\ tracks[1].result = "caught" /\ tracks[1].onError
  /\ tracks[2].result = "caught" /\ ~tracks[2].onError
  /\ onErrorCalls = <<GtagThrown>>
  /\ microtasks = <<>>
(* ======================================================================= *)
(* GATracker builders (src/unnamed/part_004, the object-parameter variant) *)
(* ======================================================================= *)

(* ------------------------- JavaScript values --------------------------- *)
\* A number is the double nearest to a decimal with three places, named by
\* that decimal in thousandths: Num(25500) is 25.5, Num(1005) is 1.005.
Num(m) == [t |-> "num", milli |-> m]
NaN == [t |-> "nan"]
Undef == [t |-> "undefined"]
Nul == [t |-> "null"]

\* the decimals among the inputs whose nearest double lies below the decimal:
\* 1.005 is stored as 1.00499999999999989..., 25.555 as 25.55499999999999971...
StoredBelow == {1005, 25555}

\* and above it: 9.005 is stored as 9.00500000000000078...
StoredAbove == {9005}

\* the stored double of magnitude m thousandths, in ten-thousandths; a double
\* that is not the decimal itself lies a fraction of a unit to its side
Stored(m) ==
  10 * m + (IF m \in StoredBelow THEN 0 - 1 ELSE IF m \in StoredAbove THEN 1 ELSE 0)

\* a string that is only stored and compared
Str(s) == [t |-> "str", s |-> s]
\* a string that is inspected character by character
Text(chars) == [t |-> "text", chars |-> chars]
\* an object with the given own fields
Obj(fields) == [t |-> "object", fields |-> fields]

\* value ? true : false
Truthy(v) ==
  \/ v.t = "num" /\ v.milli # 0
  \/ v.t = "str" /\ v.s # ""
  \/ v.t = "text" /\ v.chars # <<>>
  \/ v.t = "object"

\* value == null
IsNullish(v) == v.t \in {"undefined", "null"}

\* value <= 0, after ToNumber: null is 0, undefined is NaN
LeqZero(v) ==
  \/ v.t = "null"
  \/ v.t = "num" /\ v.milli <= 0

Distance(x, y) == IF x >= y THEN x - y ELSE y - x

NearestCents_floor(m) == m \div 10

\* Number.prototype.toFixed(2): the n for which n / 100 - x is as close to
\* zero as possible, the larger n if there are two
NearestCents(m) ==
  IF Distance(100 * ((m \div 10) + 1), Stored(m)) <= Distance(100 * (m \div 10), Stored(m))
    THEN (m \div 10) + 1
    ELSE m \div 10

\* +v.toFixed(2); a TypeError when v has no toFixed
ToFixed2(v) ==
  IF v.t = "num"
    THEN IF v.milli >= 0 THEN Num(10 * NearestCents(v.milli))
                         ELSE Num(0 - 10 * NearestCents(0 - v.milli))
  ELSE IF v.t = "nan" THEN NaN
  ELSE [t |-> "TypeError"]

\* obj[key], undefined when the key is absent
Get(obj, key) == IF key \in DOMAIN obj THEN obj[key] ELSE Undef

\* item.quantity || 1
quantityDefault(item) ==
  IF Truthy(Get(item, "quantity")) THEN Get(item, "quantity") ELSE Num(1000)

\* { quantity: item.quantity || 1, ...item, price: +item.price.toFixed(2) }:
\* the spread writes item's own quantity over the default
normalizeItem(item) ==
  Merge(Merge([quantity |-> quantityDefault(item)], item),
        [price |-> ToFixed2(Get(item, "price"))])

\* items.map(...)
normalizeItems(items) == [i \in 1..Len(items) |-> normalizeItem(items[i])]

\* the map callback throws when an item has a price without toFixed
itemsThrow(items) ==
  \E i \in 1..Len(items) : ToFixed2(Get(items[i], "price")).t = "TypeError"

(* ------------------------------ inputs --------------------------------- *)
ItemA == [item_id |-> "SKU_A", item_name |-> "Shirt", price |-> Num(10000)]
ItemB == [item_id |-> "SKU_B", item_name |-> "Socks", price |-> Num(1005),
          quantity |-> Num(0)]
ItemC == [item_id |-> "SKU_C", item_name |-> "Cap", price |-> Num(125),
          quantity |-> Undef, item_brand |-> "Acme"]
ItemD == [item_id |-> "SKU_D", item_name |-> "Belt", price |-> Num(9005),
          quantity |-> Num(2000)]
ItemLists == {<<>>, <<ItemA>>, <<ItemB, ItemD>>, <<ItemC>>}

\* an item without a price, which EcommerceItem does not allow
ItemE == [item_id |-> "SKU_E", item_name |-> "Gift"]
\* the item lists handed to trackBeginCheckout
CheckoutItemLists == ItemLists \cup {<<ItemE>>}

\* value arguments: absent, null, NaN, 0, 25.5, 25.555, -5
Values == {Undef, Nul, NaN, Num(0), Num(25500), Num(25555), Num(0 - 5000)}

TransactionIds == {"", "ORDER_1"}
CreativeNames == {"", "summer_banner"}
\* customParams
CustomParams == {NoParams, [coupon |-> "SAVE10"], [currency |-> "EUR"]}

CartActions == {"add_to_cart", "remove_from_cart", "view_cart", "update_cart"}
ItemActions == {"select_item", "view_item", "view_item_list"}
WishlistActions ==
  {"add_to_wishlist", "remove_from_wishlist", "view_wishlist", "update_wishlist"}
PromotionActions == {"view_promotion", "select_promotion"}
\* an action value outside every enum
BogusAction == "bogus_action"

(* ------------------------ results of a builder ------------------------- *)
NoEvent == [event_name |-> "", event_parameters |-> NoParams]

\* throw new Error(message)
Throw(message) ==
  [kind |-> "error", error |-> [isError |-> TRUE, message |-> message],
   event |-> NoEvent]

\* value.toFixed / item.price.toFixed on a value without the method
ThrowTypeError == Throw(<<"TypeError: toFixed is not a function">>)

\* this.buildEvent({ name, params, category })
buildEvent(name, params) ==
  [kind |-> "event", error |-> NoError,
   event |-> [event_name |-> name, event_parameters |-> params,
              event_category |-> "ecommerce"]]
(* ------------------------------ builders ------------------------------- *)
\* the result of a switch that reaches its default branch
Unsupported == "<unsupported>"

cartEventName_defaultAdd(action) ==
  IF action \in CartActions THEN action ELSE "add_to_cart"

\* trackCart: switch (action)
cartEventName(action) ==
  CASE action = "add_to_cart" -> "add_to_cart"
    [] action = "remove_from_cart" -> "remove_from_cart"
    [] action = "view_cart" -> "view_cart"
    [] action = "update_cart" -> "update_cart"
    [] OTHER -> Unsupported

\* trackItem: switch (action)
itemEventName(action) ==
  CASE action = "select_item" -> "select_item"
    [] action = "view_item" -> "view_item"
    [] action = "view_item_list" -> "view_item_list"
    [] OTHER -> Unsupported

\* trackWishlist: switch (action)
wishlistEventName(action) ==
  CASE action = "add_to_wishlist" -> "add_to_wishlist"
    [] action = "remove_from_wishlist" -> "remove_from_wishlist"
    [] action = "view_wishlist" -> "view_wishlist"
    [] action = "update_wishlist" -> "update_wishlist"
    [] OTHER -> Unsupported

\* trackPromotion: switch (action)
promotionEventName(action) ==
  CASE action = "view_promotion" -> "view_promotion"
    [] action = "select_promotion" -> "select_promotion"
    [] OTHER -> Unsupported

\* currency, value and items of the cart-like builders, then extra fields,
\* then ...customParams
valueItemsParams(a, extra) ==
  Merge(Merge([currency |-> config.currency, value |-> ToFixed2(a.value),
               items |-> normalizeItems(a.items)],
              extra),
        a.customParams)

\* building the parameters throws a TypeError
paramsThrow(a) == ToFixed2(a.value).t = "TypeError" \/ itemsThrow(a.items)

\* trackItem({action, items, item_list_id, item_list_name, value, customParams})
trackItemBody(a) ==
  IF Len(a.items) = 0
    THEN Throw(<<"GA4: Cannot track ", a.action, " with empty items">>)
  ELSE IF itemEventName(a.action) = Unsupported
    THEN Throw(<<"GA4: Unsupported cart action ", a.action>>)
  ELSE IF itemsThrow(a.items) THEN ThrowTypeError
  ELSE buildEvent(itemEventName(a.action),
         Merge(Merge([items |-> normalizeItems(a.items)], a.customParams),
               IF a.action = "view_item"
                 THEN [currency |-> config.currency, value |-> a.value]
                 ELSE [item_list_id |-> a.item_list_id,
                       item_list_name |-> a.item_list_name]))

\* trackCart({action, items, value, customParams})
trackCartBody(a) ==
  IF Len(a.items) = 0
    THEN Throw(<<"GA4: Cannot track ", a.action, " with empty items">>)
  ELSE IF ~Truthy(a.value)
    THEN Throw(<<"GA4: Cannot track ", a.action, " without value">>)
  ELSE IF cartEventName(a.action) = Unsupported
    THEN Throw(<<"GA4: Unsupported cart action ", a.action>>)
  ELSE IF paramsThrow(a) THEN ThrowTypeError
  ELSE buildEvent(cartEventName(a.action), valueItemsParams(a, NoParams))

wishlistValueMissing_falsy(value) == ~Truthy(value)

\* trackWishlist: value == null
wishlistValueMissing(value) == IsNullish(value)

\* trackWishlist({action, items, value, customParams})
trackWishlistBody(a) ==
  IF Len(a.items) = 0
    THEN Throw(<<"GA4: Cannot track ", a.action, " with empty items">>)
  ELSE IF wishlistValueMissing(a.value)
    THEN Throw(<<"GA4: Cannot track ", a.action, " without value">>)
  ELSE IF wishlistEventName(a.action) = Unsupported
    THEN Throw(<<"GA4: Unsupported wishlist action ", a.action>>)
  ELSE IF paramsThrow(a) THEN ThrowTypeError
  ELSE buildEvent(wishlistEventName(a.action), valueItemsParams(a, NoParams))

\* trackShippingInfo({items, value, shipping_tier, customParams})
trackShippingInfoBody(a) ==
  IF Len(a.items) = 0
    THEN Throw(<<"GA4: Cannot track shipping info with empty items">>)
  ELSE IF ~Truthy(a.value)
    THEN Throw(<<"GA4: Cannot track shipping info without value">>)
  ELSE IF paramsThrow(a) THEN ThrowTypeError
  ELSE buildEvent("add_shipping_info",
                  valueItemsParams(a, [shipping_tier |-> a.shipping_tier]))

\* trackPaymentInfo(items, value, payment_type, customParams)
trackPaymentInfoBody(a) ==
  IF Len(a.items) = 0
    THEN Throw(<<"GA4: Cannot track payment info with empty items">>)
  ELSE IF ~Truthy(a.value)
    THEN Throw(<<"GA4: Cannot track payment info without value">>)
  ELSE IF paramsThrow(a) THEN ThrowTypeError
  ELSE buildEvent("add_payment_info",
                  valueItemsParams(a, [payment_type |-> a.payment_type]))

\* the catch block of trackBeginCheckout: the error is logged in debug mode
\* and the call resolves
Swallowed == [kind |-> "swallowed", error |-> NoError, event |-> NoEvent]

trackBeginCheckoutBody_noCatch(a) ==
  IF paramsThrow(a) THEN ThrowTypeError
  ELSE buildEvent("begin_checkout", valueItemsParams(a, NoParams))

\* trackBeginCheckout({value, items = [], customParams})
trackBeginCheckoutBody(a) ==
  IF paramsThrow(a) THEN Swallowed
  ELSE buildEvent("begin_checkout", valueItemsParams(a, NoParams))

\* transaction_id first, then currency, value, items, ...customParams
transactionParams(a) ==
  Merge([transaction_id |-> a.transactionId], valueItemsParams(a, NoParams))

\* trackPurchase({transactionId, value, items, customParams})
trackPurchaseBody(a) ==
  IF a.transactionId = "" \/ LeqZero(a.value)
    THEN Throw(<<"GA4: Invalid purchase parameters">>)
  ELSE IF paramsThrow(a) THEN ThrowTypeError
  ELSE buildEvent("purchase", transactionParams(a))

\* trackRefund({transactionId, value, items, customParams})
trackRefundBody(a) ==
  IF a.transactionId = "" \/ LeqZero(a.value)
    THEN Throw(<<"GA4: Invalid refund parameters">>)
  ELSE IF paramsThrow(a) THEN ThrowTypeError
  ELSE buildEvent("refund", transactionParams(a))

\* trackPromotion({action, items, creative_name, creative_slot, promotion_id,
\* promotion_name, customParams})
trackPromotionBody(a) ==
  IF Len(a.items) = 0
    THEN Throw(<<"GA4: Cannot track ", a.action, " with empty items">>)
  ELSE IF a.creative_name = ""
    THEN Throw(<<"GA4: Cannot track ", a.action, " without creative_name">>)
  ELSE IF promotionEventName(a.action) = Unsupported
    THEN Throw(<<"GA4: Unsupported promotion action ", a.action>>)
  ELSE IF itemsThrow(a.items) THEN ThrowTypeError
  ELSE buildEvent(promotionEventName(a.action),
         Merge([creative_name |-> a.creative_name, creative_slot |-> a.creative_slot,
                promotion_id |-> a.promotion_id, promotion_name |-> a.promotion_name,
                items |-> normalizeItems(a.items)],
               a.customParams))

(* --------------------------- builder calls ----------------------------- *)
\* what the caller of an async arrow function gets: the call returns a
\* promise, and an error thrown in the body rejects that promise
asyncCall(method, a, outcome) ==
  [method |-> method, args |-> a, threw |-> FALSE,
   status |-> IF outcome.kind = "error" THEN "rejected" ELSE "fulfilled",
   error |-> outcome.error]

dispatchOutcome_notWithinCall(outcome, throws) ==
  UNCHANGED <<tracks, gtagCalls, dataLayer, microtasks, onErrorCalls>>

dispatchOutcome_beforeValidation(outcome, throws) ==
  trackEventBody(outcome.event, NoParams, FALSE, throws)

\* return this.trackEvent(this.buildEvent(...)), reached when nothing threw
dispatchOutcome(outcome, throws) ==
  IF outcome.kind # "event"
    THEN UNCHANGED <<tracks, gtagCalls, dataLayer, microtasks, onErrorCalls>>
    ELSE trackEventBody(outcome.event, NoParams, FALSE, throws)

\* one call of a builder; the builders keep no state between calls, so a
\* behaviour makes one
BuilderCall(method, a, outcome) ==
  /\ constructed = "ok"
  /\ builderCalls = <<>>
  /\ \E throws \in BOOLEAN :
       /\ throws => windowGtag = "external"
       /\ dispatchOutcome(outcome, throws)
  /\ builderCalls' = Append(builderCalls, asyncCall(method, a, outcome))
  /\ UNCHANGED <<config, constructed, constructError, initializationState,
                 gtagLoadPromise, windowGtag, scripts, calls, destroys>>

trackItem ==
  \E a \in [action : ItemActions \cup {BogusAction}, items : ItemLists,
            item_list_id : {"list_1"}, item_list_name : {"Featured"},
            value : Values, customParams : CustomParams] :
    BuilderCall("trackItem", a, trackItemBody(a))

trackCart ==
  \E a \in [action : CartActions \cup {BogusAction}, items : ItemLists,
            value : Values, customParams : CustomParams] :
    BuilderCall("trackCart", a, trackCartBody(a))

trackWishlist ==
  \E a \in [action : WishlistActions \cup {BogusAction}, items : ItemLists,
            value : Values, customParams : CustomParams] :
    BuilderCall("trackWishlist", a, trackWishlistBody(a))

trackShippingInfo ==
  \E a \in [items : ItemLists, value : Values, shipping_tier : {"express"},
            customParams : CustomParams] :
    BuilderCall("trackShippingInfo", a, trackShippingInfoBody(a))

trackPaymentInfo ==
  \E a \in [items : ItemLists, value : Values, payment_type : {"credit_card"},
            customParams : CustomParams] :
    BuilderCall("trackPaymentInfo", a, trackPaymentInfoBody(a))

trackBeginCheckout ==
  \E a \in [value : Values, items : CheckoutItemLists, customParams : CustomParams] :
    BuilderCall("trackBeginCheckout", a, trackBeginCheckoutBody(a))

trackPurchase ==
  \E a \in [transactionId : TransactionIds, value : Values, items : ItemLists,
            customParams : CustomParams] :
    BuilderCall("trackPurchase", a, trackPurchaseBody(a))

trackRefund ==
  \E a \in [transactionId : TransactionIds, value : Values, items : ItemLists,
            customParams : CustomParams] :
    BuilderCall("trackRefund", a, trackRefundBody(a))

trackPromotion ==
  \E a \in [action : PromotionActions \cup {BogusAction}, items : ItemLists,
            creative_name : CreativeNames, creative_slot : {"hero"},
            promotion_id : {"PROMO_1"}, promotion_name : {"Summer"},
            customParams : CustomParams] :
    BuilderCall("trackPromotion", a, trackPromotionBody(a))

(* ----------------------- trackPage and trackSearch --------------------- *)
\* window.location.href, document.title and document.referrer of the page
LocationHref == Str("https://shop.example/home")
DocumentTitle == Str("Home")
DocumentReferrer == Str("")

\* a return before any event is built
Returned == [kind |-> "returned", error |-> NoError, event |-> NoEvent]

\* the parameter pattern { path, title, referrer, ...params } applied to an
\* argument that is undefined or null
DestructureError ==
  Throw(<<"TypeError: Cannot destructure property 'path' of undefined">>)

\* ...params: the own fields other than path, title and referrer
RestParams(o) == [k \in DOMAIN o \ {"path", "title", "referrer"} |-> o[k]]

\* a ?? b
Coalesce(v, w) == IF IsNullish(v) THEN w ELSE v

\* path ?? (isBrowser() ? window.location.href : null)
pageUrl(o) == Coalesce(Get(o, "path"), IF isBrowser THEN LocationHref ELSE Nul)

\* trackPage({path, title, referrer, ...params})
trackPageBody(a) ==
  IF IsNullish(a.options) THEN DestructureError
  ELSE IF ~Truthy(pageUrl(a.options.fields)) THEN Returned
  ELSE [buildEvent("page_view",
          Merge([page_title |->
                   Coalesce(Get(a.options.fields, "title"),
                            IF isBrowser THEN DocumentTitle ELSE Str("")),
                 page_location |-> pageUrl(a.options.fields),
                 page_referrer |->
                   Coalesce(Get(a.options.fields, "referrer"),
                            IF isBrowser THEN DocumentReferrer ELSE Str(""))],
                RestParams(a.options.fields)))
          EXCEPT !.event.event_category = "engagement"]

\* String.prototype.trim on a sequence of characters
RECURSIVE trim(_)
trim(chars) ==
  IF chars = <<>> THEN <<>>
  ELSE IF Head(chars) = " " THEN trim(Tail(chars))
  ELSE IF chars[Len(chars)] = " " THEN trim(SubSeq(chars, 1, Len(chars) - 1))
  ELSE chars

\* searchTerm?.trim()
trimOptional(v) == IF IsNullish(v) THEN Undef ELSE Text(trim(v.chars))

\* trackSearch({searchTerm, options = {}})
trackSearchBody(a) ==
  IF ~Truthy(trimOptional(a.searchTerm)) THEN Returned
  ELSE [buildEvent("search",
          Merge([search_term |-> Text(trim(a.searchTerm.chars))], a.options))
          EXCEPT !.event.event_category = "engagement"]

\* the arguments of trackPage: none, or an options object
PageArguments ==
  {Undef, Obj(NoParams), Obj([path |-> Str("")]), Obj([path |-> Str("/pricing")]),
   Obj([title |-> Str("Pricing"), campaign |-> Str("spring")])}

SearchTerms ==
  {Undef, Text(<<>>), Text(<<" ", " ">>), Text(<<" ", "s", "h", "o", "e", "s", " ">>)}

SearchOptions == {NoParams, [search_term |-> Text(<<"b", "o", "o", "t", "s">>)]}

\* one of several calls of a builder in a behaviour
SequencedCall(method, a, outcome) ==
  /\ constructed = "ok"
  /\ Len(builderCalls) < MaxBuilderCalls
  /\ \E throws \in BOOLEAN :
       /\ throws => windowGtag = "external"
       /\ dispatchOutcome(outcome, throws)
  /\ builderCalls' = Append(builderCalls, asyncCall(method, a, outcome))
  /\ UNCHANGED <<config, constructed, constructError, initializationState,
                 gtagLoadPromise, windowGtag, scripts, calls, destroys>>

trackPage ==
  \E a \in [options : PageArguments] :
    SequencedCall("trackPage", a, trackPageBody(a))

trackSearch ==
  \E a \in [searchTerm : SearchTerms, options : SearchOptions] :
    SequencedCall("trackSearch", a, trackSearchBody(a))

\* configurations of the builder checks: a valid measurementId
BuilderConfigs == {c \in Configs : c.measurementId = ValidId /\ ~c.debug /\ ~c.customConfig}

BuilderInit == Init /\ config \in BuilderConfigs

BuilderNext ==
  \/ Construct
  \/ init
  \/ ScriptOnload
  \/ ScriptOnerror
  \/ trackItem
  \/ trackCart
  \/ trackWishlist
  \/ trackShippingInfo
  \/ trackPaymentInfo
  \/ trackBeginCheckout
  \/ trackPurchase
  \/ trackRefund
  \/ trackPromotion

SpecBuilders == BuilderInit /\ [][BuilderNext]_vars

SequenceNext ==
  \/ Construct
  \/ init
  \/ ScriptOnload
  \/ ScriptOnerror
  \/ trackPage
  \/ trackSearch

SpecSequence == BuilderInit /\ [][SequenceNext]_vars
(* ------------------------ claims on the builders ----------------------- *)
\* the builder call of the behaviour was made
BuilderCalled == builderCalls # <<>>

\* the builder call was made through method
Called(method) == BuilderCalled /\ builderCalls[1].method = method

\* the builder call ended in an error
Rejected == BuilderCalled /\ builderCalls[1].status = "rejected"

\* the arguments of the builder call
Args == builderCalls[1].args

\* the reporting channel is ready and tracking is enabled
ChannelReady == ~config.disableGA /\ isGtagAvailable

\* the event calls that carry an items list
ItemEventCalls ==
  {i \in 1..Len(gtagCalls) :
     gtagCalls[i].cmd = "event" /\ "items" \in DOMAIN gtagCalls[i].payload}

\* C11 (as stated): with disableGA true every builder call resolves without an
\* error, whatever its arguments.
C11_DisabledNeverErrors ==
  (BuilderCalled /\ config.disableGA) => builderCalls[1].status = "fulfilled"

\* C14: a builder call that ends in an error has made no reporting call and
\* has not reached trackEvent, whether or not the channel is ready.
C14_ErrorMakesNoReportingCall ==
  Rejected => /\ tracks = <<>>
              /\ EventCalls(gtagCalls) = <<>>
              /\ EventCalls(dataLayer) = <<>>

C14_Witness ==
  /\ Called("trackPromotion")
  /\ Rejected
  /\ Args.creative_name = ""
  /\ Args.items # <<>>
  /\ ChannelReady
  /\ initializationState = "INITIALIZED"

\* what a caller observes of a builder call's error
CallerSees(call, awaits) ==
  call.threw \/ (awaits /\ call.status = "rejected")

\* C15 (as stated): a builder call with invalid arguments throws at the point
\* of call, so a caller that does not wait on the result sees the error.
C15_ErrorsRaisedAtCall ==
  (BuilderCalled /\ builderCalls[1].error.isError)
    => CallerSees(builderCalls[1], FALSE)

\* C16: trackCart, trackWishlist, trackShippingInfo and trackPaymentInfo end
\* in an error when items is empty, for every action; trackCart,
\* trackShippingInfo and trackPaymentInfo also when value is 0; trackWishlist
\* with non-empty items and a supported action ends in an error exactly when
\* value is null or undefined, so it accepts 0.
C16_EmptyItemsAndValue ==
  /\ ( /\ BuilderCalled
       /\ builderCalls[1].method
            \in {"trackCart", "trackWishlist", "trackShippingInfo", "trackPaymentInfo"}
       /\ Args.items = <<>> )
       => /\ Rejected
          /\ builderCalls[1].error.message[Len(builderCalls[1].error.message)]
               \in {" with empty items",
                    "GA4: Cannot track shipping info with empty items",
                    "GA4: Cannot track payment info with empty items"}
  /\ ( /\ BuilderCalled
       /\ builderCalls[1].method \in {"trackCart", "trackShippingInfo", "trackPaymentInfo"}
       /\ Args.value = Num(0) )
       => Rejected
  /\ ( /\ Called("trackWishlist")
       /\ Args.items # <<>>
       /\ Args.action \in WishlistActions )
       => (Rejected <=> Args.value \in {Undef, Nul})

C16_Witness ==
  /\ Called("trackWishlist")
  /\ Args.items # <<>>
  /\ Args.value = Num(0)
  /\ builderCalls[1].status = "fulfilled"
  /\ ChannelReady
  /\ Len(tracks) = 1
  /\ tracks[1].result = "dispatched"
  /\ tracks[1].event.event_parameters.value = Num(0)

\* value > 0
GreaterThanZero(v) == v.t = "num" /\ v.milli > 0

\* C17 (as stated): trackPurchase and trackRefund end in an error exactly when
\* transactionId is empty or value is not greater than 0; otherwise, with the
\* channel ready and no custom override, one event named purchase (refund) is
\* dispatched with the given transactionId and the given value.
C17_PurchaseRefundContract ==
  (Called("trackPurchase") \/ Called("trackRefund"))
    => /\ Rejected <=> (Args.transactionId = "" \/ ~GreaterThanZero(Args.value))
       /\ (~Rejected /\ ChannelReady /\ tracks[1].result = "dispatched")
            => /\ Len(EventCalls(gtagCalls)) = 1
               /\ EventCalls(gtagCalls)[1].target =
                    (IF Called("trackPurchase") THEN "purchase" ELSE "refund")
               /\ EventCalls(gtagCalls)[1].payload.transaction_id = Args.transactionId
               /\ EventCalls(gtagCalls)[1].payload.value = Args.value

\* the builders that switch on an action, with the rest of the arguments valid
OtherwiseValid ==
  /\ BuilderCalled
  /\ Args.items # <<>>
  /\ \/ Called("trackItem")
     \/ Called("trackCart") /\ Truthy(Args.value)
     \/ Called("trackWishlist") /\ ~IsNullish(Args.value)
     \/ Called("trackPromotion") /\ Args.creative_name # ""

\* C18: trackItem, trackCart, trackWishlist and trackPromotion, called with an
\* action outside the method's enum, non-empty items and otherwise valid
\* arguments, end in an "Unsupported ... action" error whose message names
\* the action, and dispatch nothing.
C18_UnsupportedActionNamed ==
  (OtherwiseValid /\ Args.action = BogusAction)
    => /\ Rejected
       /\ Len(builderCalls[1].error.message) = 2
       /\ builderCalls[1].error.message[1]
            \in {"GA4: Unsupported cart action ", "GA4: Unsupported wishlist action ",
                 "GA4: Unsupported promotion action "}
       /\ builderCalls[1].error.message[2] = Args.action
       /\ tracks = <<>>
       /\ EventCalls(gtagCalls) = <<>>

C18_Witness ==
  /\ Called("trackCart")
  /\ Args.action = BogusAction
  /\ Args.items = <<ItemA>>
  /\ Args.value = Num(25500)
  /\ Rejected
  /\ builderCalls[1].error.message = <<"GA4: Unsupported cart action ", BogusAction>>
  /\ ChannelReady

\* C19 (as stated): every item of a dispatched items list has quantity >= 1.
C19_QuantityAtLeastOne ==
  \A i \in ItemEventCalls :
    \A j \in 1..Len(gtagCalls[i].payload.items) :
      LET q == Get(gtagCalls[i].payload.items[j], "quantity")
      IN  q.t = "num" /\ q.milli >= 1000

\* half-up rounding to hundredths of x ten-thousandths (x >= 0)
HalfUp(x) == (x + 50) \div 100

\* the item fields other than price keep their input value
PassedThrough(in, out) ==
  /\ DOMAIN in \subseteq DOMAIN out
  /\ \A k \in DOMAIN in \ {"price"} : out[k] = in[k]

\* C20 (as stated): each dispatched price is the input decimal rounded
\* half-up to 2 places, and the other fields are passed through.
C20_PriceDecimalHalfUp ==
  \A i \in ItemEventCalls :
    \A j \in 1..Len(gtagCalls[i].payload.items) :
      /\ gtagCalls[i].payload.items[j].price
           = Num(10 * HalfUp(10 * Args.items[j].price.milli))
      /\ PassedThrough(Args.items[j], gtagCalls[i].payload.items[j])

\* C20 (amended): each dispatched price is the stored input double rounded
\* half-up to 2 places (1.005, stored below 1.005, gives 1; 0.125 gives
\* 0.13), and every other input field is passed through with its value.
C20_PriceStoredHalfUp ==
  \A i \in ItemEventCalls :
    /\ Len(gtagCalls[i].payload.items) = Len(Args.items)
    /\ \A j \in 1..Len(gtagCalls[i].payload.items) :
         /\ gtagCalls[i].payload.items[j].price
              = Num(10 * HalfUp(Stored(Args.items[j].price.milli)))
         /\ PassedThrough(Args.items[j], gtagCalls[i].payload.items[j])

C20_Witness ==
  /\ BuilderCalled
  /\ Args.items = <<ItemB, ItemD>>
  /\ \E i \in ItemEventCalls :
       /\ gtagCalls[i].payload.items[1].price = Num(1000)
       /\ gtagCalls[i].payload.items[2].price = Num(9010)
       /\ gtagCalls[i].payload.items[1].quantity = Num(0)
(* ------------------- claims on the installed function ------------------ *)
\* a step that is a destroy() call
DestroyIssued == destroys' = destroys + 1

\* the trackEvent() call of this step ended in a dispatch that appended one
\* event call to the calls window.gtag received
DispatchedNow ==
  /\ tracks'[Len(tracks')].result = "dispatched"
  /\ Len(gtagCalls') = Len(gtagCalls) + 1
  /\ SubSeq(gtagCalls', 1, Len(gtagCalls)) = gtagCalls
  /\ gtagCalls'[Len(gtagCalls')].cmd = "event"
  /\ gtagCalls'[Len(gtagCalls')].target = tracks'[Len(tracks')].event.event_name

\* C24 (as stated): the state leaves INITIALIZING only for INITIALIZED or
\* FAILED; no operation, destroy() included, takes it to NOT_INITIALIZED.
C24_InitializingExits ==
  [][initializationState = "INITIALIZING"
       => initializationState' \in {"INITIALIZING", "INITIALIZED", "FAILED"}]_vars

\* C26: once a load was started, the installed function has received js
\* first, then config with the configured measurementId and debug flag, then
\* consent exactly when customConfig is set; every event call it receives
\* lies after them.
C26_ConfigureOrder ==
  scripts # <<>>
    => /\ Len(dataLayer) >= 2
       /\ dataLayer[1].cmd = "js"
       /\ dataLayer[2].cmd = "config"
       /\ dataLayer[2].target = config.measurementId
       /\ dataLayer[2].payload = [debug_mode |-> config.debug]
       /\ config.customConfig => (Len(dataLayer) >= 3 /\ dataLayer[3].cmd = "consent")
       /\ \A i \in 1..Len(dataLayer) :
            /\ dataLayer[i].cmd = "js" => i = 1
            /\ dataLayer[i].cmd = "config" => i = 2
            /\ dataLayer[i].cmd = "consent" => (i = 3 /\ config.customConfig)
            /\ dataLayer[i].cmd = "event" => i > (IF config.customConfig THEN 3 ELSE 2)
       /\ gtagCalls = dataLayer

C26_Witness ==
  /\ config.customConfig
  /\ config.debug
  /\ Len(dataLayer) = 5
  /\ dataLayer[3].cmd = "consent"
  /\ dataLayer[4].cmd = "event"
  /\ dataLayer[5].cmd = "event"
  /\ initializationState = "INITIALIZING"

\* C27: from the step that appends the script tag on, window.gtag is the
\* installed function and isInitialized() is true, and every trackEvent()
\* call dispatches, whatever the state is: INITIALIZING while the script
\* loads, FAILED after it failed.
C27_InstalledFromInjection ==
  [][/\ scripts' # <<>> => (windowGtag' = "own" /\ isInitialized')
     /\ (TrackIssued /\ scripts # <<>>) => DispatchedNow]_vars

C27_Witness ==
  /\ initializationState = "FAILED"
  /\ destroys = 0
  /\ scripts # <<>>
  /\ scripts[1].status = "errored"
  /\ Len(tracks) = 2
  /\ tracks[1].result = "dispatched"
  /\ tracks[2].result = "dispatched"
  /\ Len(EventCalls(dataLayer)) = 2

\* C28: destroy() leaves window.gtag and window.dataLayer as they are and
\* sets the state to NOT_INITIALIZED; on an instance that had started a
\* load, isInitialized() is still true after it and every later trackEvent()
\* call dispatches.
C28_DestroyKeepsChannel ==
  [][/\ DestroyIssued
          => /\ windowGtag' = windowGtag
             /\ dataLayer' = dataLayer
             /\ gtagCalls' = gtagCalls
             /\ initializationState' = "NOT_INITIALIZED"
             /\ scripts # <<>> => isInitialized'
     /\ (TrackIssued /\ destroys > 0 /\ scripts # <<>>)
          => (isInitialized /\ DispatchedNow)]_vars

C28_Witness ==
  /\ destroys = 1
  /\ initializationState = "NOT_INITIALIZED"
  /\ scripts # <<>>
  /\ isInitialized
  /\ Len(tracks) = 1
  /\ tracks[1].result = "dispatched"
  /\ Len(EventCalls(dataLayer)) = 1
  /\ Len(calls) = 1

\* C29: with a window.gtag installed outside the runtime and disableGA false,
\* no step injects a script or makes a js, config or consent call, init()
\* resolves at once, the state stays NOT_INITIALIZED, and every trackEvent()
\* call invokes that function (the event is dispatched unless the function
\* throws).
C29_ExternalFunction ==
  [][(windowGtag = "external" /\ ~config.disableGA)
       => /\ windowGtag' = "external"
          /\ scripts' = <<>>
          /\ dataLayer' = <<>>
          /\ initializationState' = "NOT_INITIALIZED"
          /\ EventCalls(gtagCalls') = gtagCalls'
          /\ CallIssued => calls'[Len(calls')].status = "resolved"
          /\ TrackIssued => \/ DispatchedNow
                            \/ tracks'[Len(tracks')].result = "caught"]_vars

C29_Witness ==
  /\ windowGtag = "external"
  /\ ~config.disableGA
  /\ initializationState = "NOT_INITIALIZED"
  /\ scripts = <<>>
  /\ Len(calls) = 2
  /\ calls[1].op = "init"
  /\ calls[1].status = "resolved"
  /\ Len(tracks) = 2
  /\ tracks[2].result = "dispatched"
  /\ Len(gtagCalls) >= 1

\* C30: whenever the state is INITIALIZING, gtagLoadPromise is set (it is the
\* script tag still loading), so init() never finds INITIALIZING with a
\* missing promise.
C30_InitializingHasPromise ==
  initializationState = "INITIALIZING"
    => /\ gtagLoadPromise # Null
       /\ scripts[gtagLoadPromise].status = "loading"

C30_Witness ==
  /\ initializationState = "INITIALIZING"
  /\ gtagLoadPromise = 1
  /\ destroys = 1
  /\ Len(calls) = 1
(* ---------------- claims on custom parameters and checkout ------------- *)
\* C21 (as stated): the parameter bag a builder dispatches holds every key
\* of the caller's customParams with the caller's value, also when the key
\* is one the builder computes.
C21_CustomParamsWin ==
  \A i \in 1..Len(gtagCalls) :
    (gtagCalls[i].cmd = "event" /\ BuilderCalled)
      => \A k \in DOMAIN Args.customParams :
           /\ k \in DOMAIN gtagCalls[i].payload
           /\ gtagCalls[i].payload[k] = Args.customParams[k]

BuilderIssued == Len(builderCalls') = Len(builderCalls) + 1

\* what the builder of a call builds from the call's arguments
BuiltBy(call) ==
  IF call.method = "trackPage" THEN trackPageBody(call.args)
  ELSE trackSearchBody(call.args)

\* the trackEvent() calls that dispatched, in call order
Sent(log) == SelectSeq(log, LAMBDA t : t.result = "dispatched")

\* C22 (as stated): trackPage never ends in an error: without an explicit
\* path (an empty options object or no argument at all) it uses
\* window.location.href, and when no path is resolvable it dispatches
\* nothing and resolves.
C22_TrackPageNeverRaises ==
  \A i \in 1..Len(builderCalls) :
    builderCalls[i].method = "trackPage"
      => /\ builderCalls[i].status = "fulfilled"
         /\ ~builderCalls[i].error.isError

\* C25: a builder call that builds an event while the channel is ready
\* reaches trackEvent within the call, and window.gtag is invoked within the
\* call: the event call is appended by the step of the call (or the function
\* threw and the error was caught); no other step adds an event call, so the
\* event calls received are those of the dispatching calls, one each, in the
\* order of the calls.
C25_DispatchWithinCall ==
  [][/\ BuilderIssued
          => ( ( /\ BuiltBy(builderCalls'[Len(builderCalls')]).kind = "event"
                 /\ ChannelReady )
               => /\ Len(tracks') = Len(tracks) + 1
                  /\ \/ /\ tracks'[Len(tracks')].result = "caught"
                        /\ gtagCalls' = gtagCalls
                     \/ gtagCalls' =
                          Append(gtagCalls,
                            [cmd |-> "event",
                             target |->
                               BuiltBy(builderCalls'[Len(builderCalls')]).event.event_name,
                             payload |->
                               BuiltBy(builderCalls'[Len(builderCalls')]).event.event_parameters]) )
     /\ ~BuilderIssued => EventCalls(gtagCalls') = EventCalls(gtagCalls)
     /\ Len(EventCalls(gtagCalls')) = Len(Sent(tracks'))
     /\ \A i \in 1..Len(Sent(tracks')) :
          /\ EventCalls(gtagCalls')[i].target = Sent(tracks')[i].event.event_name
          /\ EventCalls(gtagCalls')[i].payload = Sent(tracks')[i].event.event_parameters]_vars

C25_Witness ==
  /\ Len(builderCalls) = 2
  /\ builderCalls[1].method = "trackSearch"
  /\ builderCalls[2].method = "trackPage"
  /\ windowGtag = "own"
  /\ Len(EventCalls(gtagCalls)) = 2
  /\ EventCalls(gtagCalls)[1].target = "search"
  /\ EventCalls(gtagCalls)[2].target = "page_view"
  /\ EventCalls(gtagCalls)[2].payload.page_location = LocationHref
====
